---- MODULE Spec2Model ----
(***************************************************************************)
(* Batch orchestration of jerloo/gitall: the two drafts of the batch       *)
(* engine, GitAllClient (gitall.go, workspace scan + .status.json) and     *)
(* RepoManager (repo_manager.go, registry from the config file), with      *)
(* their Pull / Push / Sync fan-out, the sync.WaitGroup join and the       *)
(* checkpoint file consulted by fetchAllDirs.                              *)
(***************************************************************************)
EXTENDS Integers, Sequences, FiniteSets, TLC

\* ---------------------------------------------------------------- bounds
NumRepos == 2
MaxRuns == 2
MaxDepth == 2
MaxRepoDirs == 2
MaxCalls == 2

Dirs == 1..NumRepos

\* ------------------------------------------------------------- constants
ModePull == "pull"
ModePush == "push"
ModeSync == "sync"
Modes == {ModePull, ModePush, ModeSync}

ClientGitAll == "gitall"
ClientRepos == "repos"
Clients == {ClientGitAll, ClientRepos}

\* ------------------------------------------------------- checkpoint data
\* *OperationStatus: a nil pointer, or the two directory lists.
NilOp == [isNil |-> TRUE, doneDirs |-> <<>>, undoneDirs |-> <<>>]

OperationStatus(done, undone) ==
    [isNil |-> FALSE, doneDirs |-> done, undoneDirs |-> undone]

\* NewGitAllStatus: only statusfile is set, Pull/Push/Sync stay nil.
NewGitAllStatus == [pull |-> NilOp, push |-> NilOp, sync |-> NilOp]

\* The .status.json file of the workspace.
NoFile == [exists |-> FALSE, malformed |-> FALSE, content |-> NewGitAllStatus]

MalformedFile == [exists |-> TRUE, malformed |-> TRUE, content |-> NewGitAllStatus]

StatusFile(st) == [exists |-> TRUE, malformed |-> FALSE, content |-> st]

RECURSIVE SortedSeq(_)
\* the ascending list of a set of directories (sort.SliceStable in fetchAllDirs)
SortedSeq(S) ==
    IF S = {} THEN <<>>
    ELSE LET m == CHOOSE x \in S : \A y \in S : x <= y
         IN <<m>> \o SortedSeq(S \ {m})

SeqToSet(s) == {s[i] : i \in 1..Len(s)}

\* A checkpoint whose only pending work is for kind k (all directories undone).
PendingFile(k) ==
    StatusFile([m \in Modes |->
        IF m = k THEN OperationStatus(<<>>, SortedSeq(Dirs))
                 ELSE OperationStatus(<<>>, <<>>)])

InitFiles == {NoFile, MalformedFile} \cup {PendingFile(k) : k \in Modes}

\* OperationStatus.IsClear: dereferences the receiver.
OpIsClear(op) ==
    IF op.isNil THEN "panic"
    ELSE IF Len(op.undoneDirs) = 0 THEN "true" ELSE "false"

\* GitAllStatus.IsClear: os.Stat first, then Pull, Push, Sync in that order.
StatusIsClear(file, st) ==
    IF ~file.exists THEN "true"
    ELSE IF OpIsClear(st.pull) # "true"
         THEN (IF OpIsClear(st.pull) = "panic" THEN "panic" ELSE "false")
    ELSE IF OpIsClear(st.push) # "true"
         THEN (IF OpIsClear(st.push) = "panic" THEN "panic" ELSE "false")
    ELSE IF OpIsClear(st.sync) # "true"
         THEN (IF OpIsClear(st.sync) = "panic" THEN "panic" ELSE "false")
    ELSE "true"

\* GitAllClient.fetchAllDirs: the status is freshly constructed and never
\* loaded; a non-clear status yields its undoneDirs, otherwise the workspace
\* is listed and sorted.
fetchAllDirs(mode, file, subdirs) ==
    LET status == NewGitAllStatus
        clear == StatusIsClear(file, status)
    IN  IF clear = "panic" THEN [panic |-> TRUE, dirs |-> <<>>]
        ELSE IF clear = "false"
             THEN [panic |-> FALSE, dirs |-> status[mode].undoneDirs]
        ELSE [panic |-> FALSE, dirs |-> SortedSeq(subdirs)]

\* ----------------------------------------------------------- registry data
\* Directory names below the workspace root; a path is the list of names
\* from the workspace root down, WorkspacePath the root itself.
DirNameSeq == <<"x", "y">>

DirNames == {DirNameSeq[i] : i \in 1..Len(DirNameSeq)}

WorkspaceName == "ws"

WorkspacePath == <<WorkspaceName>>

RECURSIVE PathsUpTo(_)
\* the directories of the workspace tree down to depth n (absolute paths):
\* at every level the first-named directory has subdirectories, the others
\* are leaves
PathsUpTo(n) ==
    IF n = 0 THEN {WorkspacePath}
    ELSE PathsUpTo(n - 1) \cup
         {Append(q, c) : q \in {r \in PathsUpTo(n - 1) :
                                  /\ Len(r) = n
                                  /\ r[n] \in {WorkspaceName, DirNameSeq[1]}},
                         c \in DirNames}

Tree == PathsUpTo(MaxDepth)

\* filepath.Base
Base(path) == path[Len(path)]

\* filepath.Rel(workspace, path) for a path inside the workspace
Rel(ws, path) == SubSeq(path, Len(ws) + 1, Len(path))

\* RepoConfig.FullDir / filepath.Join(workspace, dir)
FullDir(ws, dir) == ws \o dir

RegNames == DirNames \cup {WorkspaceName}

\* ioutil.ReadDir: the subdirectories of a directory, sorted by file name
ReadDir(path) ==
    LET IsDir(c) == Append(path, c) \in Tree
        kids == SelectSeq(DirNameSeq, IsDir)
    IN  [i \in 1..Len(kids) |-> Append(path, kids[i])]

\* A missing key of the map config.Repos, and a *RepoConfig value.
NoEntry == [present |-> FALSE, dir |-> <<>>, branch |-> ""]

RepoConfig(dir, branch) == [present |-> TRUE, dir |-> dir, branch |-> branch]

EmptyRepos == [n \in RegNames |-> NoEntry]

\* Branch detection of Add: main first, then master, else unset.
BranchSets == SUBSET {"main", "master"}

DetectBranch(bs) ==
    IF "main" \in bs THEN "main" ELSE IF "master" \in bs THEN "master" ELSE ""

\* the registry part of the persisted configuration file
NoConfigFile == [exists |-> FALSE, repos |-> EmptyRepos]

\* initConfig: the file is read and unmarshalled when it exists, then
\* config.Repos is replaced by a fresh empty map in every case.
initConfig(file) ==
    LET loaded == IF file.exists THEN file.repos ELSE EmptyRepos
        wiped == [n \in DOMAIN loaded |-> NoEntry]
    IN  wiped

\* ------------------------------------------------------------------ state
VARIABLES
    statusfile,   \* the checkpoint file of the workspace
    dirty,        \* directories whose working tree has uncommitted changes
    unopenable,   \* directories git.PlainOpen fails on
    registry,     \* RepoManager.config.Repos (directories of the entries)
    client,       \* which draft's batch method is running
    kind,         \* Pull / Push / Sync
    main,         \* position of the calling goroutine
    workset,      \* repoDirs of the running invocation
    launched,     \* directories the loop has already handled
    pc,           \* position of each directory's task
    wg,           \* sync.WaitGroup counter
    log,          \* per directory, the steps performed in this invocation
    ret,          \* what the batch method returned
    runs,         \* number of invocations so far
    last,         \* the previous invocation, as it ended
    vcs,          \* per directory, what the VCS engine answered to pull / push
    auth,         \* outcome of newAuth in this invocation
    repos,        \* directories of the tree that open as a repository
    config,       \* RepoManager.config.Repos: name -> *RepoConfig
    cfgfile,      \* the persisted configuration file (its repos key)
    proc,         \* the CLI process: "down", "up" or "panicked"
    viperSet,     \* viper.Set("repos", config.Repos) was called in this process
    call,         \* the last Add / Remove call, with the state it started from
    hist,         \* per name, the RepoConfig of the latest Add not removed since
    calls,        \* number of Add / Remove / Status calls so far
    stat,         \* the running or last Status() call
    status,       \* the *GitAllStatus a caller of the checkpoint methods holds
    ck            \* the last Save / Load / Clear call and what it started from

vars == <<statusfile, dirty, unopenable, registry, client, kind, main,
          workset, launched, pc, wg, log, ret, runs, last, vcs, auth,
          repos, config, cfgfile, proc, viperSet, call, hist, calls, stat,
          status, ck>>

batchVars == <<statusfile, dirty, unopenable, registry, client, kind, main,
               workset, launched, pc, wg, log, ret, runs, last, vcs, auth>>

regVars == <<repos, config, cfgfile, proc, viperSet, call, hist, calls, stat>>

ckVars == <<status, ck>>

NoCk == [op |-> "none", res |-> "nil", arg |-> NewGitAllStatus,
         before |-> NoFile, saved |-> NewGitAllStatus, trip |-> "none"]

NoCall == [op |-> "none", path |-> <<>>, depth |-> 0, status |-> "ok",
           opened |-> {}, listed |-> {}, added |-> <<>>]

NoStat == [phase |-> "idle", broken |-> {}, todo |-> {}, reported |-> {}]

NoRet == [returned |-> FALSE, err |-> FALSE, dirs |-> {}]
RetNil == [returned |-> TRUE, err |-> FALSE, dirs |-> {}]
RetErr(d) == [returned |-> TRUE, err |-> TRUE, dirs |-> {d}]

NoLast == [valid |-> FALSE, client |-> ClientGitAll, kind |-> ModePull,
           succeeded |-> {}, incomplete |-> FALSE]

\* answers of the VCS engine to Worktree().Pull / Repository.Push
EngineResults == {"updated", "uptodate", "error"}

NoVcs == [d \in Dirs |-> [pull |-> "none", push |-> "none"]]

Running == {"open", "check", "pull", "push"}

ErrSteps == {"openErr", "dirty", "pullErr", "pushErr"}

TaskFailed(d) == \E i \in 1..Len(log[d]) : log[d][i] \in ErrSteps

TaskSucceeded(d) == pc[d] = "done" /\ ~TaskFailed(d)

Did(d, step) == \E i \in 1..Len(log[d]) : log[d][i] = step

Count(d, steps) == Cardinality({i \in 1..Len(log[d]) : log[d][i] \in steps})

Init ==
    /\ statusfile \in InitFiles
    /\ dirty \in SUBSET Dirs
    /\ unopenable \in SUBSET Dirs
    /\ registry = Dirs
    /\ client = ClientGitAll
    /\ kind = ModePull
    /\ main = "idle"
    /\ workset = {}
    /\ launched = {}
    /\ pc = [d \in Dirs |-> "idle"]
    /\ wg = 0
    /\ log = [d \in Dirs |-> <<>>]
    /\ ret = NoRet
    /\ runs = 0
    /\ last = NoLast
    /\ vcs = NoVcs
    /\ auth = "none"
    /\ repos = {}
    /\ config = EmptyRepos
    /\ cfgfile = NoConfigFile
    /\ proc = "down"
    /\ viperSet = FALSE
    /\ call = NoCall
    /\ hist = EmptyRepos
    /\ calls = 0
    /\ stat = NoStat
    /\ status = NewGitAllStatus
    /\ ck = NoCk

\* ------------------------------------------------------- per-task control
\* Pull of RepoManager runs its closure inline; every other batch method
\* launches one goroutine per directory.
Concurrent(c, k) == ~(c = ClientRepos /\ k = ModePull)

\* Only GitAllClient.Pull has no wg.Wait() after the loop (RepoManager.Pull
\* has no WaitGroup at all).
HasWait(c, k) == k # ModePull

\* First operation of the task body once the repository is open and usable.
FirstOp(k) == IF k = ModePush THEN "push" ELSE "pull"

\* GitAllClient.openRepo checks IfRepoIsClean after PlainOpen; in
\* RepoManager.openRepo the check is commented out.
AfterOpen(c, k) == IF c = ClientGitAll THEN "check" ELSE FirstOp(k)

\* AfterPull without the err != nil return: Sync pushes whatever pull said.
AfterPullIgnoringErr(k, ok) ==
    IF k = ModeSync THEN "push" ELSE "done"

\* After pullSingleRepo: an error ends the task, Sync goes on to push.
AfterPull(k, ok) ==
    IF ~ok THEN "done" ELSE IF k = ModeSync THEN "push" ELSE "done"

\* pullSingleRepo without the errors.Is(err, git.NoErrAlreadyUpToDate) test.
pullSingleRepoStrict(res) == res = "updated"

\* pullSingleRepo: TRUE when it returns nil. NoErrAlreadyUpToDate is mapped
\* to nil, a nil error stays nil, every other error is returned.
pullSingleRepo(res) ==
    IF res = "uptodate" THEN TRUE ELSE res = "updated"

\* pushSingleRepo: the same mapping on Repository.Push.
pushSingleRepo(res) ==
    IF res = "uptodate" THEN TRUE ELSE res = "updated"

\* A constructor that goes on without the key.
ConstructedWithoutKey(keyOk) == TRUE

\* NewGitAllClient / NewRepoManager: newAuth's error is returned with a nil
\* client, and the command stops in cobra.CheckErr.
Constructed(keyOk) == keyOk

\* The process ends: every goroutine still running is gone.
Killed(p) == [d \in Dirs |-> IF p[d] \in Running THEN "killed" ELSE p[d]]

Alive == main \in {"loop", "wait", "returned"}

\* --------------------------------------------------------------- actions
\* One CLI invocation / one call of a batch method.
Invoke(c, k) ==
    /\ main = "idle"
    /\ runs < MaxRuns
    /\ runs' = runs + 1
    /\ client' = c
    /\ kind' = k
    /\ launched' = {}
    /\ pc' = [d \in Dirs |-> "idle"]
    /\ wg' = 0
    /\ log' = [d \in Dirs |-> <<>>]
    /\ ret' = NoRet
    /\ vcs' = NoVcs
    /\ \E keyOk \in BOOLEAN :
        /\ auth' = IF keyOk THEN "ok" ELSE "failed"
        /\ IF ~Constructed(keyOk)
           THEN main' = "refused" /\ workset' = {}
           ELSE IF c = ClientGitAll
           THEN LET r == fetchAllDirs(k, statusfile, Dirs)
                IN  IF r.panic
                    THEN main' = "crashed" /\ workset' = {}
                    ELSE main' = "loop" /\ workset' = SeqToSet(r.dirs)
           ELSE main' = "loop" /\ workset' = registry
    /\ UNCHANGED <<regVars, ckVars, statusfile, dirty, unopenable, registry, last>>

\* The directory the range loop handles next: the sorted slice in order for
\* GitAllClient, any order for the map of RepoManager.
NextInLoop(d) ==
    /\ d \in workset \ launched
    /\ client = ClientGitAll => \A e \in workset \ launched : d <= e

\* wg.Add(1); go func(...)  (GitAllClient.Pull/Push/Sync, RepoManager.Push)
Launch(d) ==
    /\ main = "loop"
    /\ Concurrent(client, kind)
    /\ ~(client = ClientRepos /\ kind = ModeSync)
    /\ NextInLoop(d)
    /\ launched' = launched \cup {d}
    /\ wg' = wg + 1
    /\ pc' = [pc EXCEPT ![d] = "open"]
    /\ UNCHANGED <<regVars, ckVars, statusfile, dirty, unopenable, registry, client, kind,
                   main, workset, log, ret, runs, last,
                   vcs, auth>>

\* RepoManager.Sync: IfRepoIsClean in the loop, before the task is launched;
\* a dirty directory returns from Sync at once, a failing git status panics.
SyncLaunch(d) ==
    /\ main = "loop"
    /\ client = ClientRepos /\ kind = ModeSync
    /\ NextInLoop(d)
    /\ \E fatal \in BOOLEAN :
        IF fatal
        THEN /\ main' = "crashed"
             /\ pc' = Killed(pc)
             /\ UNCHANGED <<launched, wg, log, ret>>
        ELSE IF d \in dirty
        THEN /\ log' = [log EXCEPT ![d] = Append(@, "dirty")]
             /\ main' = "returned"
             /\ ret' = RetErr(d)
             /\ UNCHANGED <<launched, wg, pc>>
        ELSE /\ log' = [log EXCEPT ![d] = Append(@, "clean")]
             /\ launched' = launched \cup {d}
             /\ wg' = wg + 1
             /\ pc' = [pc EXCEPT ![d] = "open"]
             /\ UNCHANGED <<main, ret>>
    /\ UNCHANGED <<regVars, ckVars, statusfile, dirty, unopenable, registry, client, kind,
                   workset, runs, last,
                   vcs, auth>>

\* RepoManager.Pull: fn(repoConfig) inline; the first error is returned.
SeqPull(d) ==
    /\ main = "loop"
    /\ client = ClientRepos /\ kind = ModePull
    /\ NextInLoop(d)
    /\ launched' = launched \cup {d}
    /\ pc' = [pc EXCEPT ![d] = "done"]
    /\ IF d \in unopenable
       THEN /\ log' = [log EXCEPT ![d] = Append(@, "openErr")]
            /\ main' = "returned"
            /\ ret' = RetErr(d)
            /\ UNCHANGED vcs
       ELSE \E res \in EngineResults :
            LET ok == pullSingleRepo(res) IN
            /\ vcs' = [vcs EXCEPT ![d].pull = res]
            /\ log' = [log EXCEPT ![d] =
                         @ \o <<"open", IF ok THEN "pull" ELSE "pullErr">>]
            /\ IF AfterPull(kind, ok) = "done" /\ ~ok
               THEN main' = "returned" /\ ret' = RetErr(d)
               ELSE UNCHANGED <<main, ret>>
    /\ UNCHANGED <<regVars, ckVars, statusfile, dirty, unopenable, registry, client, kind,
                   workset, wg, runs, last, auth>>

\* End of the range loop.
LoopEnd ==
    /\ main = "loop"
    /\ launched = workset
    /\ IF Concurrent(client, kind) /\ HasWait(client, kind)
       THEN main' = "wait" /\ UNCHANGED ret
       ELSE main' = "returned" /\ ret' = RetNil
    /\ UNCHANGED <<regVars, ckVars, statusfile, dirty, unopenable, registry, client, kind,
                   workset, launched, pc, wg, log, runs, last,
                   vcs, auth>>

\* wg.Wait() returns when the counter is zero; the method returns nil.
Wait ==
    /\ main = "wait"
    /\ wg = 0
    /\ main' = "returned"
    /\ ret' = RetNil
    /\ UNCHANGED <<regVars, ckVars, statusfile, dirty, unopenable, registry, client, kind,
                   workset, launched, pc, wg, log, runs, last,
                   vcs, auth>>

\* An exit path of the task that returns without wg.Done().
FinishWithoutDone(d, step) ==
    /\ log' = [log EXCEPT ![d] = Append(@, step)]
    /\ pc' = [pc EXCEPT ![d] = "done"]
    /\ wg' = wg

\* A task ends: wg.Done(); its returned error has no receiver.
Finish(d, step) ==
    /\ log' = [log EXCEPT ![d] = Append(@, step)]
    /\ pc' = [pc EXCEPT ![d] = "done"]
    /\ wg' = wg - 1

\* git.PlainOpen in the task.
TaskOpen(d) ==
    /\ Alive
    /\ pc[d] = "open"
    /\ IF d \in unopenable
       THEN Finish(d, "openErr")
       ELSE /\ log' = [log EXCEPT ![d] = Append(@, "open")]
            /\ pc' = [pc EXCEPT ![d] = AfterOpen(client, kind)]
            /\ UNCHANGED wg
    /\ UNCHANGED <<regVars, ckVars, statusfile, dirty, unopenable, registry, client, kind,
                   main, workset, launched, ret, runs, last,
                   vcs, auth>>

\* IfRepoIsClean inside GitAllClient.openRepo; cobra.CheckErr exits the
\* process when Worktree() or Status() fails.
TaskCheck(d) ==
    /\ Alive
    /\ pc[d] = "check"
    /\ \E fatal \in BOOLEAN :
        IF fatal
        THEN /\ main' = "crashed"
             /\ pc' = Killed(pc)
             /\ UNCHANGED <<wg, log>>
        ELSE IF d \in dirty
        THEN Finish(d, "dirty") /\ UNCHANGED main
        ELSE /\ log' = [log EXCEPT ![d] = Append(@, "clean")]
             /\ pc' = [pc EXCEPT ![d] = FirstOp(kind)]
             /\ UNCHANGED <<main, wg>>
    /\ UNCHANGED <<regVars, ckVars, statusfile, dirty, unopenable, registry, client, kind,
                   workset, launched, ret, runs, last,
                   vcs, auth>>

\* pullSingleRepo: NoErrAlreadyUpToDate is mapped to nil, other errors stay.
TaskPull(d) ==
    /\ Alive
    /\ pc[d] = "pull"
    /\ \E res \in EngineResults :
        LET ok == pullSingleRepo(res) IN
        /\ vcs' = [vcs EXCEPT ![d].pull = res]
        /\ IF AfterPull(kind, ok) = "done"
           THEN Finish(d, IF ok THEN "pull" ELSE "pullErr")
           ELSE /\ log' = [log EXCEPT ![d] = Append(@, IF ok THEN "pull" ELSE "pullErr")]
                /\ pc' = [pc EXCEPT ![d] = AfterPull(kind, ok)]
                /\ UNCHANGED wg
    /\ UNCHANGED <<regVars, ckVars, statusfile, dirty, unopenable, registry, client, kind,
                   main, workset, launched, ret, runs, last, auth>>

\* pushSingleRepo, the last step of Push and Sync tasks.
TaskPush(d) ==
    /\ Alive
    /\ pc[d] = "push"
    /\ \E res \in EngineResults :
        /\ vcs' = [vcs EXCEPT ![d].push = res]
        /\ Finish(d, IF pushSingleRepo(res) THEN "push" ELSE "pushErr")
    /\ UNCHANGED <<regVars, ckVars, statusfile, dirty, unopenable, registry, client, kind,
                   main, workset, launched, ret, runs, last, auth>>

\* The process is killed in the middle of a batch.
Interrupt ==
    /\ main \in {"loop", "wait"}
    /\ main' = "killed"
    /\ pc' = Killed(pc)
    /\ UNCHANGED <<regVars, ckVars, statusfile, dirty, unopenable, registry, client, kind,
                   workset, launched, wg, log, ret, runs, last,
                   vcs, auth>>

\* The process of this invocation is over (return to the CLI, panic, kill).
Exit ==
    /\ main \in {"returned", "crashed", "killed", "refused"}
    /\ main' = "idle"
    /\ last' = IF main = "refused" THEN last
               ELSE [valid |-> TRUE, client |-> client, kind |-> kind,
                     succeeded |-> {d \in Dirs : TaskSucceeded(d)},
                     incomplete |-> \E d \in Dirs : ~TaskSucceeded(d)]
    /\ vcs' = NoVcs
    /\ auth' = "none"
    /\ workset' = {}
    /\ launched' = {}
    /\ pc' = [d \in Dirs |-> "idle"]
    /\ wg' = 0
    /\ log' = [d \in Dirs |-> <<>>]
    /\ ret' = NoRet
    /\ UNCHANGED <<regVars, ckVars, statusfile, dirty, unopenable, registry, client, kind, runs>>

Next ==
    \/ \E c \in Clients, k \in Modes : Invoke(c, k)
    \/ \E d \in Dirs : Launch(d)
    \/ \E d \in Dirs : SyncLaunch(d)
    \/ \E d \in Dirs : SeqPull(d)
    \/ LoopEnd
    \/ Wait
    \/ \E d \in Dirs : TaskOpen(d)
    \/ \E d \in Dirs : TaskCheck(d)
    \/ \E d \in Dirs : TaskPull(d)
    \/ \E d \in Dirs : TaskPush(d)
    \/ Interrupt
    \/ Exit

Spec == Init /\ [][Next]_vars

\* ------------------------------------------- one Push or Sync, scheduled
\* The batch kinds that join their tasks with wg.Wait().
JoinModes == {ModePush, ModeSync}

\* A single call of Push or Sync in a workspace without a checkpoint file.
InvokeJoin(c, k) ==
    /\ runs = 0
    /\ Invoke(c, k)

InitJoin ==
    /\ Init
    /\ statusfile = NoFile

NextJoin ==
    \/ \E c \in Clients, k \in JoinModes : InvokeJoin(c, k)
    \/ \E d \in Dirs : Launch(d)
    \/ \E d \in Dirs : SyncLaunch(d)
    \/ LoopEnd
    \/ Wait
    \/ \E d \in Dirs : TaskOpen(d)
    \/ \E d \in Dirs : TaskCheck(d)
    \/ \E d \in Dirs : TaskPull(d)
    \/ \E d \in Dirs : TaskPush(d)
    \/ Interrupt
    \/ Exit

\* The Go scheduler runs every runnable goroutine: a task whose call has
\* returned takes its next step, the range loop goes on, and wg.Wait()
\* returns once the counter is zero.
FairJoin ==
    /\ \A d \in Dirs :
        /\ WF_vars(TaskOpen(d))
        /\ WF_vars(TaskCheck(d))
        /\ WF_vars(TaskPull(d))
        /\ WF_vars(TaskPush(d))
    /\ WF_vars(Wait)

SpecJoin == InitJoin /\ [][NextJoin]_vars /\ FairJoin

\* ------------------------------------------------------ registry: Add
\* The guard with the bound off by one: depth zero already stops.
DepthExhaustedAtZero(dept) == dept <= 0

\* The guard with the bound off by one the other way.
DepthExhaustedBelowMinusOne(dept) == dept < -1

\* if dept < 0 { return nil }
DepthExhausted(dept) == dept < 0

\* An insertion that keeps an entry already registered under the name.
InsertIfAbsent(cfg, name, entry) ==
    IF cfg[name].present THEN cfg ELSE [cfg EXCEPT ![name] = entry]

\* client.config.Repos[repoConfig.Name] = repoConfig
Insert(cfg, name, entry) == [cfg EXCEPT ![name] = entry]

\* delete(client.config.Repos, repoName)
Delete(cfg, name) == [cfg EXCEPT ![name] = NoEntry]

\* viper.WriteConfig: the settings viper read from the file, with "repos"
\* overridden by the map handed to viper.Set (the map itself, not a copy).
WriteConfig(st) ==
    [st EXCEPT !.file = [exists |-> TRUE,
                         repos |-> IF st.set THEN st.config ELSE st.file.repos]]

\* the branches repo.Branch finds in a repository (none where bf says nothing)
BranchesOf(bf, path) == IF path \in DOMAIN bf THEN bf[path] ELSE {}

RECURSIVE AddRec(_, _, _, _, _)
RECURSIVE AddChildren(_, _, _, _, _)
\* the loop of Add over the subdirectories; an error or panic ends it
AddChildren(kids, dept, bad, bf, st) ==
    IF Len(kids) = 0 THEN st
    ELSE LET st1 == AddRec(Head(kids), dept, bad, bf, st)
         IN  IF st1.status # "ok" THEN st1
             ELSE AddChildren(Tail(kids), dept, bad, bf, st1)

\* RepoManager.Add(repoPath, dept). bad: paths PlainOpen fails on with an
\* error other than ErrRepositoryNotExists; bf: branches of each repository.
AddRec(path, dept, bad, bf, st) ==
    IF DepthExhausted(dept) THEN st
    ELSE LET dir == Rel(WorkspacePath, path)
             opening == FullDir(WorkspacePath, dir)
             st1 == [st EXCEPT !.opened = @ \cup {opening}]
         IN  IF opening \in bad THEN [st1 EXCEPT !.status = "panic"]
             ELSE IF opening \notin repos
             THEN LET st2 == [st1 EXCEPT !.listed = @ \cup {path}]
                      st3 == AddChildren(ReadDir(path), dept - 1, bad, bf, st2)
                  IN  IF st3.status # "ok" THEN st3 ELSE WriteConfig(st3)
             ELSE LET entry == RepoConfig(dir,
                                          DetectBranch(BranchesOf(bf, opening)))
                  IN  WriteConfig([st1 EXCEPT
                          !.config = Insert(@, Base(path), entry),
                          !.set = TRUE,
                          !.added = Append(@, path)])

\* The entry an Add of a repository path is expected to build.
ExpectedEntry(path, bs) ==
    [present |-> TRUE, dir |-> Tail(path),
     branch |-> IF "main" \in bs THEN "main"
                ELSE IF "master" \in bs THEN "master" ELSE ""]

RECURSIVE HistAfter(_, _, _)
\* hist after the registrations of one call, in their order
HistAfter(h, added, bf) ==
    IF Len(added) = 0 THEN h
    ELSE HistAfter([h EXCEPT ![Head(added)[Len(Head(added))]] =
                        ExpectedEntry(Head(added), BranchesOf(bf, Head(added)))],
                   Tail(added), bf)

Depths == (0 - 1)..MaxDepth

\* the directories at most depth levels below path (path itself at level 0)
Within(path, depth) ==
    {q \in Tree : /\ Len(q) >= Len(path)
                  /\ Len(q) - Len(path) <= depth
                  /\ SubSeq(q, 1, Len(path)) = path}

\* initConfig at the start of a CLI process.
Start ==
    /\ proc = "down"
    /\ calls < MaxCalls
    /\ proc' = "up"
    /\ config' = initConfig(cfgfile)
    /\ viperSet' = FALSE
    /\ call' = [NoCall EXCEPT !.op = "start"]
    /\ stat' = NoStat
    /\ UNCHANGED <<batchVars, ckVars, repos, cfgfile, hist, calls>>

\* One call of Add on the manager of the running process.
AddCall(path, depth) ==
    /\ proc = "up"
    /\ calls < MaxCalls
    /\ stat.phase # "running"
    /\ calls' = calls + 1
    /\ \E bad \in {{}} \cup {{q} : q \in Within(path, depth)},
          bf \in [repos \cap Within(path, depth) -> BranchSets] :
        LET st0 == [config |-> config, set |-> viperSet, file |-> cfgfile,
                    status |-> "ok", opened |-> {}, listed |-> {},
                    added |-> <<>>]
            r == AddRec(path, depth, bad, bf, st0)
        IN  /\ config' = r.config
            /\ viperSet' = r.set
            /\ cfgfile' = r.file
            /\ proc' = IF r.status = "panic" THEN "panicked" ELSE "up"
            /\ hist' = HistAfter(hist, r.added, bf)
            /\ call' = [op |-> "add", path |-> path, depth |-> depth,
                        status |-> r.status, opened |-> r.opened,
                        listed |-> r.listed, added |-> r.added]
    /\ stat' = NoStat
    /\ UNCHANGED <<batchVars, ckVars, repos>>

\* RepoManager.Remove(repoPath)
RemoveCall(path) ==
    /\ proc = "up"
    /\ calls < MaxCalls
    /\ stat.phase # "running"
    /\ calls' = calls + 1
    /\ LET st == WriteConfig([config |-> Delete(config, Base(path)),
                              set |-> TRUE, file |-> cfgfile])
       IN  /\ config' = st.config
           /\ viperSet' = st.set
           /\ cfgfile' = st.file
    /\ hist' = [hist EXCEPT ![Base(path)] = NoEntry]
    /\ call' = [NoCall EXCEPT !.op = "remove", !.path = path]
    /\ stat' = NoStat
    /\ UNCHANGED <<batchVars, ckVars, repos, proc>>

\* The names Status ranges over.
Registered(cfg) == {n \in RegNames : cfg[n].present}

\* RepoManager.Status() begins; broken: registered directories in which
\* "git status --porcelain" fails.
StatusStart ==
    /\ proc = "up"
    /\ calls < MaxCalls
    /\ stat.phase # "running"
    /\ calls' = calls + 1
    /\ \E broken \in SUBSET Registered(config) :
        stat' = [phase |-> "running", broken |-> broken,
                 todo |-> Registered(config), reported |-> {}]
    /\ UNCHANGED <<batchVars, ckVars, repos, config, cfgfile, proc, viperSet, call, hist>>

\* One round of the loop of Status: IfRepoIsClean panics when git fails,
\* otherwise the line for the repository is printed.
StatusStep(n) ==
    /\ proc = "up"
    /\ stat.phase = "running"
    /\ n \in stat.todo
    /\ IF n \in stat.broken
       THEN /\ stat' = [stat EXCEPT !.phase = "panicked"]
            /\ proc' = "panicked"
       ELSE /\ stat' = [stat EXCEPT !.todo = @ \ {n}, !.reported = @ \cup {n}]
            /\ UNCHANGED proc
    /\ UNCHANGED <<batchVars, ckVars, repos, config, cfgfile, viperSet, call, hist, calls>>

\* Status returns nil after the loop.
StatusEnd ==
    /\ proc = "up"
    /\ stat.phase = "running"
    /\ stat.todo = {}
    /\ stat' = [stat EXCEPT !.phase = "returned"]
    /\ UNCHANGED <<batchVars, ckVars, repos, config, cfgfile, proc, viperSet, call, hist, calls>>

\* The CLI process ends; its memory is gone, the file stays.
Stop ==
    /\ proc \in {"up", "panicked"}
    /\ stat.phase # "running"
    /\ proc' = "down"
    /\ config' = EmptyRepos
    /\ viperSet' = FALSE
    /\ call' = NoCall
    /\ stat' = NoStat
    /\ UNCHANGED <<batchVars, ckVars, repos, cfgfile, hist, calls>>

InitRegistry ==
    /\ statusfile = NoFile
    /\ dirty = {}
    /\ unopenable = {}
    /\ registry = Dirs
    /\ client = ClientGitAll
    /\ kind = ModePull
    /\ main = "idle"
    /\ workset = {}
    /\ launched = {}
    /\ pc = [d \in Dirs |-> "idle"]
    /\ wg = 0
    /\ log = [d \in Dirs |-> <<>>]
    /\ ret = NoRet
    /\ runs = 0
    /\ last = NoLast
    /\ vcs = NoVcs
    /\ auth = "none"
    /\ repos \in {S \in SUBSET Tree : Cardinality(S) <= MaxRepoDirs}
    /\ config = EmptyRepos
    /\ cfgfile = NoConfigFile
    /\ proc = "down"
    /\ viperSet = FALSE
    /\ call = NoCall
    /\ hist = EmptyRepos
    /\ calls = 0
    /\ stat = NoStat
    /\ status = NewGitAllStatus
    /\ ck = NoCk

NextRegistry ==
    \/ Start
    \/ \E path \in Tree, depth \in Depths : AddCall(path, depth)
    \/ \E path \in Tree : RemoveCall(path)
    \/ StatusStart
    \/ \E n \in RegNames : StatusStep(n)
    \/ StatusEnd
    \/ Stop

SpecRegistry == InitRegistry /\ [][NextRegistry]_vars

\* ------------------------------------------- checkpoint: Save, Load, Clear
\* The values a *OperationStatus can hold: nil, or two disjoint lists.
OpValues ==
    {NilOp} \cup {OperationStatus(SortedSeq(D), SortedSeq(U)) :
                    D \in SUBSET Dirs, U \in SUBSET Dirs}

DisjointOp(op) == SeqToSet(op.doneDirs) \cap SeqToSet(op.undoneDirs) = {}

\* The statuses a caller can build before calling a checkpoint method.
Statuses ==
    {st \in [Modes -> OpValues] : \A k \in Modes : DisjointOp(st[k])}

\* json.Marshal of a *GitAllStatus: a nil pointer is written as null, a
\* non-nil one as the object of its two lists.
Marshal(st) ==
    [k \in Modes |->
        IF st[k].isNil THEN NilOp
        ELSE OperationStatus(st[k].doneDirs, st[k].undoneDirs)]

\* json.Unmarshal into st: null sets the pointer to nil, an object fills the
\* pointed-to value (allocated when the pointer was nil), each list replaced.
Unmarshal(doc, st) ==
    [k \in Modes |->
        IF doc[k].isNil THEN NilOp
        ELSE LET target == IF st[k].isNil THEN OperationStatus(<<>>, <<>>)
                           ELSE st[k]
             IN  [target EXCEPT !.doneDirs = doc[k].doneDirs,
                                !.undoneDirs = doc[k].undoneDirs]]

\* GitAllStatus.Save: nothing is done when IsClear answers true, which it
\* does whenever the file is absent; otherwise the file is overwritten.
Save(file, st) ==
    LET clear == StatusIsClear(file, st)
    IN  IF clear = "panic" THEN [res |-> "panic", file |-> file]
        ELSE IF clear = "true" THEN [res |-> "nil", file |-> file]
        ELSE [res |-> "nil", file |-> StatusFile(Marshal(st))]

\* GitAllStatus.Load: IsClear is asked of the receiver before anything is
\* read; a file that does not parse gives the error of json.Unmarshal.
Load(file, st) ==
    LET clear == StatusIsClear(file, st)
    IN  IF clear = "panic" THEN [res |-> "panic", status |-> st]
        ELSE IF clear = "true" THEN [res |-> "nil", status |-> st]
        ELSE IF file.malformed THEN [res |-> "err", status |-> st]
        ELSE [res |-> "nil", status |-> Unmarshal(file.content, st)]

\* GitAllStatus.Clear: os.Remove, whose error is returned as it is.
Clear(file) ==
    IF file.exists THEN [res |-> "nil", file |-> NoFile]
    ELSE [res |-> "err", file |-> file]

CkAlive == ck.res # "panic"

\* status.Save()
SaveCall ==
    /\ CkAlive
    /\ LET r == Save(statusfile, status) IN
        /\ statusfile' = r.file
        /\ ck' = [op |-> "save", res |-> r.res, arg |-> status,
                  before |-> statusfile, saved |-> status,
                  trip |-> IF r.res = "nil" THEN "saved" ELSE "none"]
    /\ UNCHANGED status
    /\ UNCHANGED <<regVars, dirty, unopenable, registry, client, kind, main,
                   workset, launched, pc, wg, log, ret, runs, last, vcs, auth>>

\* status := NewGitAllStatus(workspace)
FreshCall ==
    /\ CkAlive
    /\ ck.op # "fresh"
    /\ status' = NewGitAllStatus
    /\ ck' = [ck EXCEPT !.op = "fresh", !.res = "nil", !.arg = status,
                        !.before = statusfile,
                        !.trip = IF ck.trip = "saved" THEN "fresh" ELSE "none"]
    /\ UNCHANGED statusfile
    /\ UNCHANGED <<regVars, dirty, unopenable, registry, client, kind, main,
                   workset, launched, pc, wg, log, ret, runs, last, vcs, auth>>

\* status.Load()
LoadCall ==
    /\ CkAlive
    /\ LET r == Load(statusfile, status) IN
        /\ status' = r.status
        /\ ck' = [ck EXCEPT !.op = "load", !.res = r.res, !.arg = status,
                            !.before = statusfile,
                            !.trip = IF ck.trip = "fresh" THEN "loaded"
                                     ELSE "none"]
    /\ UNCHANGED statusfile
    /\ UNCHANGED <<regVars, dirty, unopenable, registry, client, kind, main,
                   workset, launched, pc, wg, log, ret, runs, last, vcs, auth>>

\* status.Clear()
ClearCall ==
    /\ CkAlive
    /\ LET r == Clear(statusfile) IN
        /\ statusfile' = r.file
        /\ ck' = [ck EXCEPT !.op = "clear", !.res = r.res, !.arg = status,
                            !.before = statusfile, !.trip = "none"]
    /\ UNCHANGED status
    /\ UNCHANGED <<regVars, dirty, unopenable, registry, client, kind, main,
                   workset, launched, pc, wg, log, ret, runs, last, vcs, auth>>

InitStatus ==
    /\ statusfile \in InitFiles
    /\ status \in Statuses
    /\ ck = NoCk
    /\ dirty = {}
    /\ unopenable = {}
    /\ registry = Dirs
    /\ client = ClientGitAll
    /\ kind = ModePull
    /\ main = "idle"
    /\ workset = {}
    /\ launched = {}
    /\ pc = [d \in Dirs |-> "idle"]
    /\ wg = 0
    /\ log = [d \in Dirs |-> <<>>]
    /\ ret = NoRet
    /\ runs = 0
    /\ last = NoLast
    /\ vcs = NoVcs
    /\ auth = "none"
    /\ repos = {}
    /\ config = EmptyRepos
    /\ cfgfile = NoConfigFile
    /\ proc = "down"
    /\ viperSet = FALSE
    /\ call = NoCall
    /\ hist = EmptyRepos
    /\ calls = 0
    /\ stat = NoStat

NextStatus ==
    \/ SaveCall
    \/ FreshCall
    \/ LoadCall
    \/ ClearCall

SpecStatus == InitStatus /\ [][NextStatus]_vars

\* ------------------------------------------------------------ properties
InInvocation == main \in {"loop", "wait", "returned", "crashed", "killed"}

NoneRunning == \A d \in Dirs : pc[d] \notin Running

FailedDirs == {d \in Dirs : TaskFailed(d)}

SucceededDirs == {d \in Dirs : TaskSucceeded(d)}

Pulled(d) == Did(d, "pull") \/ Did(d, "pullErr")

Pushed(d) == Did(d, "push") \/ Did(d, "pushErr")

\* position of the first occurrence of a step in a directory's log (0: none)
Pos(d, steps) ==
    IF \E i \in 1..Len(log[d]) : log[d][i] \in steps
    THEN CHOOSE i \in 1..Len(log[d]) :
            /\ log[d][i] \in steps
            /\ \A j \in 1..(i - 1) : log[d][j] \notin steps
    ELSE 0

\* C1 -- join barrier: once the batch call has returned, none of the tasks
\* it launched is still opening, checking, pulling or pushing.
C1_JoinBarrier ==
    ret.returned => \A d \in Dirs : pc[d] \notin Running

\* C2 -- aggregated result: when the call has returned and its tasks are
\* over, it returned an error exactly when some task failed, and the error
\* carries every failed directory.
C2_AggregatedResult ==
    (ret.returned /\ NoneRunning) =>
        /\ ret.err <=> FailedDirs # {}
        /\ FailedDirs \subseteq ret.dirs

\* C3 -- dirty-tree exclusion: no pull and no push step is ever performed on
\* a directory whose working tree is dirty.
C3_DirtyExclusion ==
    \A d \in dirty : ~Pulled(d) /\ ~Pushed(d)

\* C4 -- sibling isolation: when the batch call has returned with a failed
\* directory, every clean and openable directory of the working set had its
\* task run to completion in that invocation.
C4_SiblingIsolation ==
    (main = "returned" /\ NoneRunning /\ FailedDirs # {}) =>
        \A e \in workset \ (dirty \cup unopenable) : pc[e] = "done"

\* C5 -- sync ordering: in a sync task a push step comes only after a
\* successful open, a clean check and a successful pull of the same
\* directory, and never after a failed pull.
C5_SyncPullBeforePush ==
    kind = ModeSync =>
        \A d \in Dirs :
            /\ Pushed(d) =>
                /\ Did(d, "open") /\ Did(d, "clean") /\ Did(d, "pull")
                /\ Pos(d, {"open"}) < Pos(d, {"push", "pushErr"})
                /\ Pos(d, {"clean"}) < Pos(d, {"push", "pushErr"})
                /\ Pos(d, {"pull"}) < Pos(d, {"push", "pushErr"})
            /\ Did(d, "pullErr") => ~Pushed(d)

\* C5 witness: one sync invocation in which a directory was pulled and then
\* pushed while another one stopped at its failed pull.
C5_Witness ==
    /\ kind = ModeSync
    /\ \E d, e \in Dirs :
        /\ Pushed(d) /\ Did(d, "pull")
        /\ Did(e, "pullErr") /\ pc[e] = "done"

\* the entry of a checkpoint file for one operation kind
FileDone(k) == SeqToSet(statusfile.content[k].doneDirs)

FileUndone(k) == SeqToSet(statusfile.content[k].undoneDirs)

\* the checkpoint cannot be read, or its pending work is for other kinds only
ForeignCheckpoint(k) ==
    /\ statusfile.exists
    /\ \/ statusfile.malformed
       \/ /\ FileUndone(k) = {}
          /\ \E m \in Modes \ {k} : FileUndone(m) # {}

\* C6 -- checkpoint resume: an invocation that follows an incomplete batch
\* of the same operation kind neither targets nor touches a directory the
\* earlier batch completed.
C6_ResumeSkipsDone ==
    (/\ InInvocation /\ client = ClientGitAll
     /\ last.valid /\ last.incomplete
     /\ last.client = client /\ last.kind = kind) =>
        /\ workset \cap last.succeeded = {}
        /\ \A d \in last.succeeded : log[d] = <<>>

\* C7 -- checkpoint cleared on full success: when an invocation is over with
\* zero failed tasks, no checkpoint file exists, whatever was there before.
C7_ClearedOnSuccess ==
    (/\ main \in {"returned", "crashed"}
     /\ NoneRunning
     /\ FailedDirs = {}
     /\ \A d \in workset : TaskSucceeded(d)) =>
        ~statusfile.exists

\* C8 -- partial failure leaves a checkpoint: when the call has returned and
\* a task failed, the checkpoint file exists and its entry for the invoked
\* kind lists the failed directories as undone and the succeeded as done.
C8_PartialFailureCheckpoint ==
    (/\ client = ClientGitAll
     /\ main = "returned" /\ NoneRunning /\ FailedDirs # {}) =>
        /\ statusfile.exists
        /\ ~statusfile.malformed
        /\ FailedDirs \subseteq FileUndone(kind)
        /\ SucceededDirs \subseteq FileDone(kind)

\* C10 -- a malformed checkpoint, or one pending for another kind, is
\* treated as absent: the invocation works on every subdirectory of the
\* workspace and does not crash while selecting its working set.
C10_ForeignCheckpointIgnored ==
    (InInvocation /\ client = ClientGitAll /\ ForeignCheckpoint(kind)) =>
        workset = Dirs

\* C18 -- already up to date is success: a pull or push the engine answers
\* with AlreadyUpToDate is logged as a successful step, and a sync task goes
\* on to push after such a pull.
C18_UpToDateIsSuccess ==
    \A d \in Dirs :
        /\ vcs[d].pull = "uptodate" =>
            /\ Did(d, "pull") /\ ~Did(d, "pullErr")
            /\ kind = ModeSync => (pc[d] \in {"push", "killed"} \/ Pushed(d))
        /\ vcs[d].push = "uptodate" =>
            /\ Did(d, "push") /\ ~Did(d, "pushErr")
            /\ TaskSucceeded(d)

\* C18 witness: a sync task that succeeded with both pull and push already
\* up to date.
C18_Witness ==
    /\ kind = ModeSync
    /\ \E d \in Dirs :
        /\ vcs[d].pull = "uptodate" /\ vcs[d].push = "uptodate"
        /\ TaskSucceeded(d)

\* C19 -- credential failure is startup-fatal: when newAuth failed the client
\* was not constructed and no directory was touched; any step on a
\* directory happens after the key was loaded.
C19_CredentialFailureFatal ==
    /\ auth = "failed" =>
        /\ main = "refused"
        /\ \A d \in Dirs : log[d] = <<>> /\ pc[d] = "idle" /\ vcs[d] = NoVcs[d]
    /\ (\E d \in Dirs : log[d] # <<>> \/ pc[d] # "idle") => auth = "ok"

\* C19 witness: an invocation stopped by the failed key load.
C19_Witness ==
    auth = "failed" /\ main = "refused" /\ runs > 0

\* C20 -- working-set selection of fetchAllDirs: with a readable checkpoint
\* that is not clear the working set is the persisted undoneDirs of the
\* requested kind, otherwise every subdirectory; selecting it never crashes.
C20_WorkingSetSelection ==
    (InInvocation /\ client = ClientGitAll /\ ~statusfile.malformed) =>
        /\ workset =
             IF statusfile.exists /\ \E m \in Modes : FileUndone(m) # {}
             THEN FileUndone(kind)
             ELSE Dirs
        /\ workset = {} => main # "crashed"

\* the repositories at or below a directory
ReposBelow(path) ==
    {r \in repos : Len(r) >= Len(path) /\ SubSeq(r, 1, Len(path)) = path}

AddedSet == SeqToSet(call.added)

\* C11 -- Add recursion bound: when the only repository at or below root lies
\* D levels below it, Add(root, maxDepth) registers it exactly when
\* maxDepth >= D, and registers nothing when maxDepth < D.
C11_AddRecursionBound ==
    (call.op = "add" /\ call.status = "ok") =>
        \A r \in repos :
            ReposBelow(call.path) = {r} =>
                LET D == Len(r) - Len(call.path)
                IN  /\ call.depth >= D <=> r \in AddedSet
                    /\ call.depth < D => call.added = <<>>
                    /\ r \in AddedSet =>
                        /\ config[Base(r)].present
                        /\ config[Base(r)].dir = Tail(r)
                        /\ cfgfile.repos[Base(r)] = config[Base(r)]

\* C11 witness: an Add that went down at least two levels to register the
\* only repository below its root.
C11_Witness ==
    /\ call.op = "add" /\ call.status = "ok"
    /\ \E r \in repos :
        /\ ReposBelow(call.path) = {r}
        /\ Len(r) - Len(call.path) >= 2
        /\ r \in AddedSet

\* an Add call has just been made with a depth satisfying the bound
AddStep(maxD) ==
    /\ calls' = calls + 1
    /\ call'.op = "add"
    /\ call'.depth <= maxD

AddDidNothing ==
    /\ call'.opened = {} /\ call'.listed = {} /\ call'.added = <<>>
    /\ config' = config
    /\ cfgfile' = cfgfile

\* C12 (as stated) -- Add with maxDepth zero or negative opens nothing, lists
\* nothing and leaves the registry unchanged in memory and on disk.
C12_NoActionAtZeroOrBelow ==
    [][AddStep(0) => AddDidNothing]_vars

\* C12 (amended) -- Add with a negative maxDepth opens nothing, lists nothing
\* and leaves the registry unchanged in memory and on disk.
C12_NoActionBelowZero ==
    [][AddStep(0 - 1) => AddDidNothing]_vars

\* C12 witness: Add was called with a negative depth on a repository.
C12_Witness ==
    call.op = "add" /\ call.depth < 0 /\ call.path \in repos

\* C13 -- last write wins: the entry registered under a name is the
\* RepoConfig (relative dir, detected branch) of the latest Add of a path
\* with that base name; the map holds one entry per name.
C13_LastWriteWins ==
    \A n \in RegNames :
        /\ config[n].present => config[n] = hist[n]
        /\ cfgfile.repos[n].present => cfgfile.repos[n] = hist[n]

\* C13 witness: one name registered twice, from two directories, the later
\* one being the entry held.
C13_Witness ==
    /\ call.op = "add"
    /\ \E i, j \in 1..Len(call.added) :
        /\ i < j
        /\ Base(call.added[i]) = Base(call.added[j])
        /\ \A k \in (j + 1)..Len(call.added) :
              Base(call.added[k]) # Base(call.added[j])
        /\ config[Base(call.added[j])].dir = Tail(call.added[j])

\* a Remove call has just been made
RemoveStep ==
    /\ calls' = calls + 1
    /\ call'.op = "remove"

\* C14 -- Remove of an unknown entry leaves the persisted registry as it was.
C14_RemoveUnknownNoOp ==
    [][(/\ RemoveStep
        /\ ~config[Base(call'.path)].present
        /\ ~cfgfile.repos[Base(call'.path)].present) =>
            cfgfile'.repos = cfgfile.repos]_vars

\* C15 -- Remove of a registered entry deletes that entry and no other, in
\* memory and in the persisted registry.
C15_RemoveExactlyOne ==
    [][(/\ RemoveStep
        /\ \/ config[Base(call'.path)].present
           \/ cfgfile.repos[Base(call'.path)].present) =>
            /\ ~config'[Base(call'.path)].present
            /\ ~cfgfile'.repos[Base(call'.path)].present
            /\ \A o \in RegNames \ {Base(call'.path)} :
                /\ config'[o] = config[o]
                /\ cfgfile'.repos[o] = cfgfile.repos[o]]_vars

\* C16 -- registry durability: a process starts with the registry the
\* previous one persisted, and every repository added and not removed since
\* is in the persisted registry.
C16_RegistryDurability ==
    /\ (proc = "up" /\ call.op = "start") => config = cfgfile.repos
    /\ \A n \in RegNames : hist[n].present => cfgfile.repos[n] = hist[n]

\* C17 -- Status is best effort: when Status is over, every registered
\* repository whose check works has been reported, whatever happened to
\* the others.
C17_StatusBestEffort ==
    stat.phase \in {"returned", "panicked"} =>
        (Registered(config) \ stat.broken) \subseteq stat.reported

\* some operation kind of st still has directories to do
HasPending(st) ==
    \E k \in Modes : ~st[k].isNil /\ Len(st[k].undoneDirs) > 0

\* every operation kind of st is present and has nothing left to do
AllClear(st) ==
    \A k \in Modes : ~st[k].isNil /\ Len(st[k].undoneDirs) = 0

\* C21: persisting a status with pending work for some kind writes the
\* checkpoint file with that status, whether or not a file existed before;
\* persisting a status that is clear for all kinds leaves no checkpoint
\* file; deleting an absent checkpoint is not an error.
C21_PersistSemantics ==
    /\ (ck.op = "save" /\ HasPending(ck.arg)) =>
           /\ ck.res = "nil"
           /\ statusfile = StatusFile(Marshal(ck.arg))
    /\ (ck.op = "save" /\ AllClear(ck.arg)) =>
           /\ ck.res = "nil"
           /\ ~statusfile.exists
    /\ (ck.op = "clear" /\ ~ck.before.exists) => ck.res = "nil"

\* C22: after Save of a status with pending work and Load into a freshly
\* constructed status, the loaded status has the saved doneDirs and
\* undoneDirs for each of pull, push and sync.
C22_CheckpointRoundTrip ==
    (ck.trip = "loaded" /\ HasPending(ck.saved)) =>
        /\ ck.res = "nil"
        /\ \A k \in Modes :
            /\ status[k].doneDirs = ck.saved[k].doneDirs
            /\ status[k].undoneDirs = ck.saved[k].undoneDirs

OpenSteps == {"open", "openErr"}

PullSteps == {"pull", "pullErr"}

PushSteps == {"push", "pushErr"}

\* C23: in one batch invocation every directory of the working set gets
\* exactly one task, tasks act only on directories of the working set, and
\* each repository is opened, pulled and pushed at most once.
C23_OneTaskPerDirectory ==
    InInvocation =>
        /\ \A d \in Dirs :
            /\ Count(d, OpenSteps) <= 1
            /\ Count(d, PullSteps) <= 1
            /\ Count(d, PushSteps) <= 1
            /\ d \notin workset => (pc[d] = "idle" /\ log[d] = <<>>)
        /\ launched \subseteq workset
        /\ main = "returned" => launched = workset

\* the tasks that were launched and have not signalled completion
Unfinished == {d \in Dirs : pc[d] \in Running \cup {"killed"}}

WaitGroupBalanced ==
    /\ wg >= 0
    /\ wg = Cardinality(Unfinished)

\* a step in which the task of d takes one of its exit paths
TaskExits(d) == pc[d] \in Running /\ pc'[d] = "done"

DoneOncePerExit ==
    \A d \in Dirs : TaskExits(d) => wg' = wg - 1

JoinOver == main \in {"returned", "killed", "crashed"}

\* C24: in Push and Sync every task signals completion exactly once on
\* every exit path, the WaitGroup counter is never negative and always
\* equals the number of unfinished tasks, and wg.Wait() eventually returns
\* unless the process is ended first.
C24_WaitGroupBalance ==
    /\ []WaitGroupBalanced
    /\ [][DoneOncePerExit]_vars
    /\ (main = "wait") ~> JoinOver

\* C24 witness: a Sync has returned from wg.Wait() after one task left by
\* its open-failure path and another by its push-failure path.
C24_Witness ==
    /\ kind = ModeSync
    /\ main = "returned"
    /\ ret = RetNil
    /\ wg = 0
    /\ \E d, e \in Dirs : Did(d, "openErr") /\ Did(e, "pushErr")

====
